---- MODULE Spec2Model ----
(***************************************************************************)
(* Codec model of two IronRDP structures:                                  *)
(*   - SuppressOutputPdu (crates/ironrdp-pdu/src/rdp/suppress_output.rs)   *)
(*   - ServerSecurityData, through the reference vectors of                *)
(*     crates/ironrdp-testsuite-core/src/security_data.rs                  *)
(* A byte is a number in 0..255, a byte stream a sequence of bytes.        *)
(* Option<T> is a sequence of length 0 (None) or 1 (Some).                 *)
(***************************************************************************)
EXTENDS Integers, Sequences, FiniteSets

VARIABLES phase, stream, result, pdu, written, length,
          sec_stream, sec_result, sec_value, sec_written

vars == <<phase, stream, result, pdu, written, length,
          sec_stream, sec_result, sec_value, sec_written>>

(***************************************************************************)
(* Bounds of the explored inputs.                                          *)
(***************************************************************************)
\* number of bytes that may follow a complete structure in an input stream
MaxTrailing == 1
\* how far a declared length prefix may deviate from the real payload length
MaxLenSkew == 1

Byte == 0..255

\* the first n bytes of s (all of s when it is shorter)
Take(s, n) == SubSeq(s, 1, IF n < Len(s) THEN n ELSE Len(s))
Drop(s, n) == SubSeq(s, n + 1, Len(s))

(***************************************************************************)
(* io::Error values produced by the decoders.                              *)
(***************************************************************************)
NoError == [kind |-> "None", msg |-> ""]
UnexpectedEof == [kind |-> "UnexpectedEof", msg |-> "failed to fill whole buffer"]
InvalidData == [kind |-> "InvalidData", msg |-> "invalid display update type"]

Ok(v, n) == [ok |-> TRUE, value |-> <<v>>, err |-> NoError, consumed |-> n]
Err(e, n) == [ok |-> FALSE, value |-> <<>>, err |-> e, consumed |-> n]

(***************************************************************************)
(* InclusiveRectangle (crate::geometry): four u16 little-endian fields.    *)
(***************************************************************************)
RECT_LEN == 8

LE16(n) == <<n % 256, n \div 256>>
U16(s, i) == s[i] + 256 * s[i + 1]

InclusiveRectangle_to_buffer(r) ==
  LE16(r.left) \o LE16(r.top) \o LE16(r.right) \o LE16(r.bottom)

InclusiveRectangle_buffer_length(r) == RECT_LEN

\* reads four u16 values; a read that cannot be filled fails with
\* UnexpectedEof after the fields that were read whole
InclusiveRectangle_from_buffer(s) ==
  IF Len(s) < RECT_LEN
    THEN Err(UnexpectedEof, 2 * (Len(s) \div 2))
    ELSE Ok([left |-> U16(s, 1), top |-> U16(s, 3),
             right |-> U16(s, 5), bottom |-> U16(s, 7)], RECT_LEN)

(***************************************************************************)
(* AllowDisplayUpdatesType                                                 *)
(***************************************************************************)
from_u8_default(value) ==
  IF value = 1 THEN <<"AllowDisplayUpdates">> ELSE <<"SuppressDisplayUpdates">>

from_u8(value) ==
  IF value = 0 THEN <<"SuppressDisplayUpdates">>
  ELSE IF value = 1 THEN <<"AllowDisplayUpdates">>
  ELSE <<>>

as_u8(t) == IF t = "SuppressDisplayUpdates" THEN 0 ELSE 1

(***************************************************************************)
(* SuppressOutputPdu: [desktop_rect |-> Option<InclusiveRectangle>]        *)
(***************************************************************************)
\* stream.read_u8()? at byte offset pos (0-based): the byte, or no byte
read_u8(s, pos) == IF pos < Len(s) THEN <<s[pos + 1]>> ELSE <<>>

\* faulty variant: a stream that ends inside the padding is accepted as "suppress"
from_buffer_lenient(s) ==
  IF read_u8(s, 0) = <<>> THEN Err(UnexpectedEof, 0)
  ELSE LET t == from_u8(s[1]) IN
    IF t = <<>> THEN Err(InvalidData, 1)
    ELSE IF Len(s) < 4 THEN Ok([desktop_rect |-> <<>>], Len(s))
    ELSE IF t[1] = "AllowDisplayUpdates"
      THEN LET r == InclusiveRectangle_from_buffer(Drop(s, 4)) IN
        IF r.ok THEN Ok([desktop_rect |-> r.value], 4 + r.consumed)
        ELSE Err(r.err, 4 + r.consumed)
      ELSE Ok([desktop_rect |-> <<>>], 4)

\* faulty variant: only two of the three padding bytes are read
from_buffer_pad2(s) ==
  IF read_u8(s, 0) = <<>> THEN Err(UnexpectedEof, 0)
  ELSE LET t == from_u8(s[1]) IN
    IF t = <<>> THEN Err(InvalidData, 1)
    ELSE IF read_u8(s, 1) = <<>> THEN Err(UnexpectedEof, 1)
    ELSE IF read_u8(s, 2) = <<>> THEN Err(UnexpectedEof, 2)
    ELSE IF t[1] = "AllowDisplayUpdates"
      THEN LET r == InclusiveRectangle_from_buffer(Drop(s, 3)) IN
        IF r.ok THEN Ok([desktop_rect |-> r.value], 3 + r.consumed)
        ELSE Err(r.err, 3 + r.consumed)
      ELSE Ok([desktop_rect |-> <<>>], 3)

from_buffer(s) ==
  IF read_u8(s, 0) = <<>> THEN Err(UnexpectedEof, 0)
  ELSE LET t == from_u8(s[1]) IN
    IF t = <<>> THEN Err(InvalidData, 1)
    ELSE IF read_u8(s, 1) = <<>> THEN Err(UnexpectedEof, 1)
    ELSE IF read_u8(s, 2) = <<>> THEN Err(UnexpectedEof, 2)
    ELSE IF read_u8(s, 3) = <<>> THEN Err(UnexpectedEof, 3)
    ELSE IF t[1] = "AllowDisplayUpdates"
      THEN LET r == InclusiveRectangle_from_buffer(Drop(s, 4)) IN
        IF r.ok THEN Ok([desktop_rect |-> r.value], 4 + r.consumed)
        ELSE Err(r.err, 4 + r.consumed)
      ELSE Ok([desktop_rect |-> <<>>], 4)

\* faulty variant: the discriminant is written the wrong way round
to_buffer_swapped(v) ==
  LET allow_display_updates ==
        IF v.desktop_rect # <<>> THEN "SuppressDisplayUpdates"
        ELSE "AllowDisplayUpdates"
  IN <<as_u8(allow_display_updates), 0, 0, 0>>
       \o (IF v.desktop_rect # <<>>
             THEN InclusiveRectangle_to_buffer(v.desktop_rect[1]) ELSE <<>>)

\* faulty variant: the rectangle is left out of the encoding
to_buffer_norect(v) ==
  LET allow_display_updates ==
        IF v.desktop_rect # <<>> THEN "AllowDisplayUpdates"
        ELSE "SuppressDisplayUpdates"
  IN <<as_u8(allow_display_updates), 0, 0, 0>>

\* faulty variant: only two padding bytes are written
to_buffer_pad2(v) ==
  LET allow_display_updates ==
        IF v.desktop_rect # <<>> THEN "AllowDisplayUpdates"
        ELSE "SuppressDisplayUpdates"
  IN <<as_u8(allow_display_updates), 0, 0>>
       \o (IF v.desktop_rect # <<>>
             THEN InclusiveRectangle_to_buffer(v.desktop_rect[1]) ELSE <<>>)

to_buffer(v) ==
  LET allow_display_updates ==
        IF v.desktop_rect # <<>> THEN "AllowDisplayUpdates"
        ELSE "SuppressDisplayUpdates"
  IN <<as_u8(allow_display_updates), 0, 0, 0>>
       \o (IF v.desktop_rect # <<>>
             THEN InclusiveRectangle_to_buffer(v.desktop_rect[1]) ELSE <<>>)

\* faulty variant: the rectangle is not counted
buffer_length_header(v) == 1 + 3

buffer_length(v) ==
  1 + 3 + (IF v.desktop_rect # <<>>
             THEN InclusiveRectangle_buffer_length(v.desktop_rect[1]) ELSE 0)

(***************************************************************************)
(* Reference vectors of ironrdp-testsuite-core/src/security_data.rs        *)
(***************************************************************************)
SERVER_SECURITY_DATA_WITHOUT_OPTIONAL_FIELDS_BUFFER ==
  << 0, 0, 0, 0,   \* encryption method
     0, 0, 0, 0 >> \* encryption level

SERVER_SECURITY_DATA_WITH_OPTIONAL_FIELDS_PREFIX_BUFFER ==
  << 2, 0, 0, 0,   \* encryption method
     2, 0, 0, 0 >> \* encryption level

SERVER_RANDOM_BUFFER ==
  <<
    16, 17, 119, 32, 48, 97, 10, 18, 228, 52, 161, 30, 242, 195, 159, 49,
    125, 164, 95, 1, 137, 52, 150, 224, 255, 17, 8, 105, 127, 26, 195, 210 >>

SERVER_CERT_BUFFER ==
  <<
    1, 0, 0, 0, 1, 0, 0, 0, 1, 0, 0, 0, 6, 0, 92, 0, 82, 83, 65, 49, 72, 0,
    0, 0, 0, 2, 0, 0, 63, 0, 0, 0, 1, 0, 1, 0, 203, 129, 254, 186, 109, 97,
    195, 85, 5, 213, 95, 46, 135, 248, 113, 148, 214, 241, 165, 203, 241, 95,
    12, 61, 248, 112, 2, 150, 196, 251, 155, 200, 60, 45, 85, 174, 232, 255,
    50, 117, 234, 104, 121, 229, 162, 1, 253, 49, 160, 177, 31, 85, 166, 31,
    193, 246, 209, 131, 136, 99, 38, 86, 18, 188, 0, 0, 0, 0, 0, 0, 0, 0, 8,
    0, 72, 0, 233, 225, 214, 40, 70, 139, 78, 245, 10, 223, 253, 238, 33,
    153, 172, 180, 225, 143, 95, 129, 87, 130, 239, 157, 150, 82, 99, 39, 24,
    41, 219, 179, 74, 253, 154, 218, 66, 173, 181, 105, 33, 137, 14, 29, 192,
    76, 26, 168, 170, 113, 62, 15, 84, 185, 154, 228, 153, 104, 63, 108, 214,
    118, 132, 97, 0, 0, 0, 0, 0, 0, 0, 0 >>

\* u32::to_le_bytes
to_le_bytes(n) ==
  <<n % 256, (n \div 256) % 256, (n \div 65536) % 256, (n \div 16777216) % 256>>

\* read_u32::<LittleEndian> of the four bytes starting at index i
U32(s, i) == s[i] + 256 * s[i + 1] + 65536 * s[i + 2] + 16777216 * s[i + 3]

\* EncryptionMethod bit flags and EncryptionLevel values used by the vectors
EncryptionMethod_empty == 0
BIT_128 == 2
EncryptionLevel_None == 0
EncryptionLevel_ClientCompatible == 2

SERVER_RANDOM_LEN == 32

SERVER_SECURITY_DATA_WITHOUT_OPTIONAL_FIELDS ==
  [encryption_method |-> EncryptionMethod_empty,
   encryption_level |-> EncryptionLevel_None,
   server_random |-> <<>>,
   server_cert |-> <<>>]

SERVER_SECURITY_DATA_WITH_OPTIONAL_FIELDS ==
  [encryption_method |-> BIT_128,
   encryption_level |-> EncryptionLevel_ClientCompatible,
   server_random |-> <<SERVER_RANDOM_BUFFER>>,
   server_cert |-> SERVER_CERT_BUFFER]

SERVER_SECURITY_DATA_WITH_MISMATCH_OF_REQUIRED_AND_OPTIONAL_FIELDS ==
  [encryption_method |-> EncryptionMethod_empty,
   encryption_level |-> EncryptionLevel_None,
   server_random |-> <<SERVER_RANDOM_BUFFER>>,
   server_cert |-> SERVER_CERT_BUFFER]

\* faulty variant: each length is laid out immediately before its own payload
WITH_OPTIONAL_FIELDS_BUFFER_interleaved ==
  SERVER_SECURITY_DATA_WITH_OPTIONAL_FIELDS_PREFIX_BUFFER
    \o to_le_bytes(Len(SERVER_RANDOM_BUFFER))
    \o SERVER_RANDOM_BUFFER
    \o to_le_bytes(Len(SERVER_CERT_BUFFER))
    \o SERVER_CERT_BUFFER

SERVER_SECURITY_DATA_WITH_OPTIONAL_FIELDS_BUFFER ==
  SERVER_SECURITY_DATA_WITH_OPTIONAL_FIELDS_PREFIX_BUFFER
    \o to_le_bytes(Len(SERVER_RANDOM_BUFFER))
    \o to_le_bytes(Len(SERVER_CERT_BUFFER))
    \o SERVER_RANDOM_BUFFER
    \o SERVER_CERT_BUFFER

SERVER_SECURITY_DATA_WITH_INVALID_SERVER_RANDOM_BUFFER ==
  SERVER_SECURITY_DATA_WITH_OPTIONAL_FIELDS_PREFIX_BUFFER
    \o to_le_bytes(Len(SERVER_RANDOM_BUFFER) + 1)
    \o to_le_bytes(Len(SERVER_CERT_BUFFER))
    \o SERVER_RANDOM_BUFFER
    \o <<0>>
    \o SERVER_CERT_BUFFER

(***************************************************************************)
(* ServerSecurityData codec (ironrdp_pdu::gcc).  The field order is the    *)
(* one the reference vectors lay out: method, level, nonce length,         *)
(* certificate length, nonce, certificate.                                 *)
(***************************************************************************)
Truncation == [kind |-> "Truncation", msg |-> ""]
LengthPrefixMismatch == [kind |-> "LengthPrefixMismatch", msg |-> ""]

\* faulty variant: the nonce length prefix is not compared with the nonce
\* size and an over-declared certificate is cut down to the bytes available
ServerSecurityData_from_buffer_clamped(s) ==
  IF Len(s) < 4 THEN Err(Truncation, 0)
  ELSE IF Len(s) < 8 THEN Err(Truncation, 4)
  ELSE LET method == U32(s, 1)
           level == U32(s, 5) IN
    IF method = EncryptionMethod_empty /\ level = EncryptionLevel_None
      THEN Ok([encryption_method |-> method, encryption_level |-> level,
               server_random |-> <<>>, server_cert |-> <<>>], 8)
    ELSE IF Len(s) < 16 + SERVER_RANDOM_LEN THEN Err(Truncation, 8)
    ELSE LET cert_len == U32(s, 13)
             avail == Len(s) - 16 - SERVER_RANDOM_LEN
             n == IF cert_len < avail THEN cert_len ELSE avail IN
      Ok([encryption_method |-> method, encryption_level |-> level,
          server_random |-> <<SubSeq(s, 17, 16 + SERVER_RANDOM_LEN)>>,
          server_cert |-> SubSeq(s, 17 + SERVER_RANDOM_LEN,
                                 16 + SERVER_RANDOM_LEN + n)],
         16 + SERVER_RANDOM_LEN + n)

\* faulty variant: the optional fields are read whenever bytes follow the
\* two fixed fields, whatever method and level say
ServerSecurityData_from_buffer_eager(s) ==
  IF Len(s) < 4 THEN Err(Truncation, 0)
  ELSE IF Len(s) < 8 THEN Err(Truncation, 4)
  ELSE LET method == U32(s, 1)
           level == U32(s, 5) IN
    IF Len(s) = 8
      THEN Ok([encryption_method |-> method, encryption_level |-> level,
               server_random |-> <<>>, server_cert |-> <<>>], 8)
    ELSE IF Len(s) < 12 THEN Err(Truncation, 8)
    ELSE LET random_len == U32(s, 9) IN
      IF random_len # SERVER_RANDOM_LEN \/ Len(s) - 12 < random_len
        THEN Err(LengthPrefixMismatch, 12)
      ELSE IF Len(s) < 16 THEN Err(Truncation, 12)
      ELSE LET cert_len == U32(s, 13) IN
        IF Len(s) - 16 < random_len THEN Err(LengthPrefixMismatch, 16)
        ELSE IF Len(s) - 16 - random_len < cert_len
          THEN Err(LengthPrefixMismatch, 16 + random_len)
        ELSE Ok([encryption_method |-> method, encryption_level |-> level,
                 server_random |-> <<SubSeq(s, 17, 16 + random_len)>>,
                 server_cert |->
                   SubSeq(s, 17 + random_len, 16 + random_len + cert_len)],
                16 + random_len + cert_len)

ServerSecurityData_from_buffer(s) ==
  IF Len(s) < 4 THEN Err(Truncation, 0)
  ELSE IF Len(s) < 8 THEN Err(Truncation, 4)
  ELSE LET method == U32(s, 1)
           level == U32(s, 5) IN
    IF method = EncryptionMethod_empty /\ level = EncryptionLevel_None
      THEN Ok([encryption_method |-> method, encryption_level |-> level,
               server_random |-> <<>>, server_cert |-> <<>>], 8)
    ELSE IF Len(s) < 12 THEN Err(Truncation, 8)
    ELSE LET random_len == U32(s, 9) IN
      IF random_len # SERVER_RANDOM_LEN \/ Len(s) - 12 < random_len
        THEN Err(LengthPrefixMismatch, 12)
      ELSE IF Len(s) < 16 THEN Err(Truncation, 12)
      ELSE LET cert_len == U32(s, 13) IN
        IF Len(s) - 16 < random_len THEN Err(LengthPrefixMismatch, 16)
        ELSE IF Len(s) - 16 - random_len < cert_len
          THEN Err(LengthPrefixMismatch, 16 + random_len)
        ELSE Ok([encryption_method |-> method, encryption_level |-> level,
                 server_random |-> <<SubSeq(s, 17, 16 + random_len)>>,
                 server_cert |->
                   SubSeq(s, 17 + random_len, 16 + random_len + cert_len)],
                16 + random_len + cert_len)

ServerSecurityData_to_buffer(v) ==
  to_le_bytes(v.encryption_method) \o to_le_bytes(v.encryption_level)
    \o (IF v.server_random # <<>>
          THEN to_le_bytes(Len(v.server_random[1]))
                 \o to_le_bytes(Len(v.server_cert))
                 \o v.server_random[1] \o v.server_cert
          ELSE <<>>)

(***************************************************************************)
(* Inputs                                                                  *)
(***************************************************************************)
FieldSamples == {0, 258, 65535}
Rects == [left : FieldSamples, top : FieldSamples,
          right : FieldSamples, bottom : FieldSamples]
Pdus == {[desktop_rect |-> <<>>]} \cup {[desktop_rect |-> <<r>>] : r \in Rects}

PadSamples == {0, 171}
Pads == {<<a, b, c>> : a \in PadSamples, b \in PadSamples, c \in PadSamples}
DiscSamples == {0, 1, 2, 255}
Trail(n) == [i \in 1..n |-> 127]

Streams ==
  {Take(<<d>> \o p \o InclusiveRectangle_to_buffer(r) \o Trail(n), k) :
     d \in DiscSamples, p \in Pads, r \in Rects,
     n \in 0..MaxTrailing, k \in 0..(4 + RECT_LEN + MaxTrailing)}
  \cup {<<d>> \o p \o Trail(n) :
          d \in Byte, p \in Pads, n \in 0..MaxTrailing}

SecValues == {SERVER_SECURITY_DATA_WITHOUT_OPTIONAL_FIELDS,
              SERVER_SECURITY_DATA_WITH_OPTIONAL_FIELDS,
              SERVER_SECURITY_DATA_WITH_MISMATCH_OF_REQUIRED_AND_OPTIONAL_FIELDS}

Skewed(n) == {m \in (n - MaxLenSkew)..(n + MaxLenSkew) : m >= 0}

SecBodies ==
  {to_le_bytes(m) \o to_le_bytes(l) \o to_le_bytes(nl) \o to_le_bytes(cl)
     \o SERVER_RANDOM_BUFFER \o Trail(n) \o SERVER_CERT_BUFFER :
     m \in {EncryptionMethod_empty, BIT_128},
     l \in {EncryptionLevel_None, EncryptionLevel_ClientCompatible},
     nl \in Skewed(Len(SERVER_RANDOM_BUFFER)),
     cl \in Skewed(Len(SERVER_CERT_BUFFER)) \cup {0},
     n \in 0..MaxTrailing}

SecStreams ==
  {Take(b, k) : b \in SecBodies,
                k \in 0..(16 + Len(SERVER_RANDOM_BUFFER) + MaxTrailing
                            + Len(SERVER_CERT_BUFFER))}
  \cup {SERVER_SECURITY_DATA_WITHOUT_OPTIONAL_FIELDS_BUFFER,
        SERVER_SECURITY_DATA_WITH_OPTIONAL_FIELDS_BUFFER,
        SERVER_SECURITY_DATA_WITH_INVALID_SERVER_RANDOM_BUFFER}

(***************************************************************************)
(* State machine: one codec call per step.                                 *)
(***************************************************************************)
NoResult == [ok |-> FALSE, value |-> <<>>, err |-> NoError, consumed |-> 0]

Init ==
  /\ phase = "idle"
  /\ stream = <<>>
  /\ result = NoResult
  /\ pdu = <<>>
  /\ written = <<>>
  /\ length = 0
  /\ sec_stream = <<>>
  /\ sec_result = NoResult
  /\ sec_value = <<>>
  /\ sec_written = <<>>

SecUnchanged == UNCHANGED <<sec_stream, sec_result, sec_value, sec_written>>
PduUnchanged == UNCHANGED <<stream, result, pdu, written, length>>

\* SuppressOutputPdu::from_buffer on bytes received from the peer
FromBuffer ==
  /\ phase = "idle"
  /\ \E s \in Streams :
      /\ stream' = s
      /\ result' = from_buffer(s)
      /\ phase' = "decoded"
      /\ UNCHANGED <<pdu, written, length>>
      /\ SecUnchanged

\* to_buffer of the value a decode produced
ReEncode ==
  /\ phase = "decoded"
  /\ result.ok
  /\ pdu' = result.value
  /\ written' = to_buffer(result.value[1])
  /\ length' = buffer_length(result.value[1])
  /\ phase' = "reencoded"
  /\ UNCHANGED <<stream, result>>
  /\ SecUnchanged

\* buffer_length of a constructed value
BufferLength ==
  /\ phase = "idle"
  /\ \E v \in Pdus :
      /\ pdu' = <<v>>
      /\ length' = buffer_length(v)
      /\ phase' = "measured"
      /\ UNCHANGED <<stream, result, written>>
      /\ SecUnchanged

\* to_buffer of the constructed value
ToBuffer ==
  /\ phase = "measured"
  /\ written' = to_buffer(pdu[1])
  /\ phase' = "encoded"
  /\ UNCHANGED <<stream, result, pdu, length>>
  /\ SecUnchanged

\* from_buffer on the bytes to_buffer wrote
FromBufferWritten ==
  /\ phase = "encoded"
  /\ stream' = written
  /\ result' = from_buffer(written)
  /\ phase' = "roundtrip"
  /\ UNCHANGED <<pdu, written, length>>
  /\ SecUnchanged

\* ServerSecurityData::from_buffer on bytes received from the peer
SecFromBuffer ==
  /\ phase = "idle"
  /\ \E s \in SecStreams :
      /\ sec_stream' = s
      /\ sec_result' = ServerSecurityData_from_buffer(s)
      /\ phase' = "sec_decoded"
      /\ UNCHANGED <<sec_value, sec_written>>
      /\ PduUnchanged

\* ServerSecurityData::to_buffer of a reference value
SecToBuffer ==
  /\ phase = "idle"
  /\ \E v \in SecValues :
      /\ sec_value' = <<v>>
      /\ sec_written' = ServerSecurityData_to_buffer(v)
      /\ phase' = "sec_encoded"
      /\ UNCHANGED <<sec_stream, sec_result>>
      /\ PduUnchanged

\* ServerSecurityData::from_buffer on the bytes to_buffer wrote
SecFromBufferWritten ==
  /\ phase = "sec_encoded"
  /\ sec_stream' = sec_written
  /\ sec_result' = ServerSecurityData_from_buffer(sec_written)
  /\ phase' = "sec_roundtrip"
  /\ UNCHANGED <<sec_value, sec_written>>
  /\ PduUnchanged

Next ==
  \/ FromBuffer
  \/ ReEncode
  \/ BufferLength
  \/ ToBuffer
  \/ FromBufferWritten
  \/ SecFromBuffer
  \/ SecToBuffer
  \/ SecFromBufferWritten

Spec == Init /\ [][Next]_vars

(***************************************************************************)
(* Properties of SuppressOutputPdu                                         *)
(***************************************************************************)
RectPresent(v) == v.desktop_rect # <<>>

\* C1: from_buffer applied to the bytes to_buffer wrote for a value v
\* (desktop_rect absent or present) succeeds and returns a value equal to v.
C1_RoundTrip ==
  phase = "roundtrip" => result.ok /\ result.value = pdu

C1_Witness ==
  /\ phase = "roundtrip"
  /\ RectPresent(pdu[1])
  /\ pdu[1].desktop_rect[1].left = 258
  /\ result.ok
  /\ result.value[1].desktop_rect[1].left = 258

\* C2: buffer_length(v) is the number of bytes to_buffer(v) writes: 4 when
\* desktop_rect is absent, 4 + the rectangle's buffer_length when present.
C2_LengthConsistency ==
  phase \in {"encoded", "roundtrip", "reencoded"} =>
    /\ length = Len(written)
    /\ length = IF RectPresent(pdu[1])
                  THEN 4 + InclusiveRectangle_buffer_length(pdu[1].desktop_rect[1])
                  ELSE 4

C2_Witness ==
  /\ phase = "encoded"
  /\ RectPresent(pdu[1])
  /\ length = 12
  /\ Len(written) = 12

\* C3: a stream whose first byte is in 0x02..0xFF makes from_buffer fail with
\* InvalidData and no value, whatever follows; from_u8 yields a variant only
\* for 0x00 and 0x01, so a successful decode started with 0x00 or 0x01.
C3_DiscriminantExhaustive ==
  /\ \A b \in Byte : from_u8(b) # <<>> => b \in {0, 1}
  /\ phase = "decoded" /\ stream # <<>> /\ stream[1] \in 2..255 =>
       /\ ~result.ok
       /\ result.err = InvalidData
       /\ result.value = <<>>
  /\ phase = "decoded" /\ result.ok => stream[1] \in {0, 1}

C3_Witness ==
  /\ phase = "decoded"
  /\ Len(stream) > 4
  /\ stream[1] = 255
  /\ ~result.ok
  /\ result.err.kind = "InvalidData"

\* C4: discriminant 0x00 yields desktop_rect absent and consumes exactly 4
\* bytes whatever follows the padding; discriminant 0x01 yields desktop_rect
\* as decoded by the rectangle's decoder from the bytes after the padding and
\* consumes exactly 4 + the rectangle's encoded length.
C4_ExactConsumption ==
  /\ phase = "decoded" /\ Len(stream) >= 4 /\ stream[1] = 0 =>
       /\ result.ok
       /\ result.value = <<[desktop_rect |-> <<>>]>>
       /\ result.consumed = 4
  /\ phase = "decoded" /\ Len(stream) >= 4 + RECT_LEN /\ stream[1] = 1 =>
       /\ result.ok
       /\ RectPresent(result.value[1])
       /\ result.value[1].desktop_rect =
            InclusiveRectangle_from_buffer(SubSeq(stream, 5, 4 + RECT_LEN)).value
       /\ result.consumed =
            4 + InclusiveRectangle_buffer_length(result.value[1].desktop_rect[1])

C4_Witness ==
  /\ phase = "decoded"
  /\ Len(stream) = 4 + RECT_LEN + 1
  /\ stream[1] = 1
  /\ result.ok
  /\ result.consumed = 4 + RECT_LEN

\* C5: to_buffer writes one discriminant byte that is 0x01 iff desktop_rect
\* is present (0x00 otherwise), then three zero padding bytes, then the
\* rectangle's encoding if present and nothing further if absent.
C5_EncodedForm ==
  phase \in {"encoded", "reencoded"} =>
    /\ Len(written) >= 4
    /\ written[1] \in {0, 1}
    /\ (written[1] = 1) <=> RectPresent(pdu[1])
    /\ written[2] = 0 /\ written[3] = 0 /\ written[4] = 0
    /\ Drop(written, 4) =
         IF RectPresent(pdu[1])
           THEN InclusiveRectangle_to_buffer(pdu[1].desktop_rect[1])
           ELSE <<>>

C5_Witness ==
  /\ phase = "encoded"
  /\ RectPresent(pdu[1])
  /\ written[1] = 1
  /\ Len(written) = 4 + RECT_LEN

\* a stream that ends before the bytes the format requires
Truncated(s) ==
  \/ Len(s) < 4
  \/ s[1] = 1 /\ Len(s) < 4 + RECT_LEN

\* a stream whose header is whole and whose failure comes from the
\* nested rectangle decoder
FailsInRect(s) == Len(s) >= 4 /\ s[1] = 1 /\ Len(s) < 4 + RECT_LEN

\* C9 as stated: a truncated stream gives a failure and no value, and the
\* failure for running out of header bytes differs from InvalidData and from
\* every failure propagated from the nested rectangle decoder.
C9_Original ==
  phase = "decoded" /\ Truncated(stream) =>
    /\ ~result.ok
    /\ result.value = <<>>
    /\ Len(stream) < 4 /\ result.err.kind = "UnexpectedEof" =>
         /\ result.err # InvalidData
         /\ \A s \in Streams : FailsInRect(s) => from_buffer(s).err # result.err

\* C9 amended: a truncated stream gives a failure and no value; the failure
\* is InvalidData when the first byte is not 0x00/0x01 and UnexpectedEof
\* otherwise; a failure inside the rectangle is the nested decoder's error
\* unchanged, which is the same UnexpectedEof a truncated header gives.
C9_Truncation ==
  phase = "decoded" /\ Truncated(stream) =>
    /\ ~result.ok
    /\ result.value = <<>>
    /\ result.err = IF stream # <<>> /\ stream[1] \notin {0, 1}
                      THEN InvalidData ELSE UnexpectedEof
    /\ UnexpectedEof # InvalidData
    /\ FailsInRect(stream) =>
         /\ result.err = InclusiveRectangle_from_buffer(Drop(stream, 4)).err
         /\ result.err = from_buffer(<<>>).err

C9_Witness ==
  /\ phase = "decoded"
  /\ FailsInRect(stream)
  /\ Len(stream) = 4 + RECT_LEN - 1
  /\ ~result.ok
  /\ result.err.kind = "UnexpectedEof"

\* C10 as stated: to_buffer of a decoded value reproduces exactly the bytes
\* that were consumed, also when the padding bytes of the input are not zero.
C10_Original ==
  phase = "reencoded" => written = Take(stream, result.consumed)

\* C10 amended: to_buffer of a decoded value reproduces the consumed bytes
\* with the three padding bytes replaced by zero; it reproduces them exactly
\* if and only if the padding bytes of the input are all zero.
C10_ReEncode ==
  phase = "reencoded" =>
    /\ written = <<stream[1], 0, 0, 0>> \o SubSeq(stream, 5, result.consumed)
    /\ (written = Take(stream, result.consumed))
         <=> (stream[2] = 0 /\ stream[3] = 0 /\ stream[4] = 0)

C10_Witness ==
  /\ phase = "reencoded"
  /\ stream[1] = 1
  /\ stream[3] = 171
  /\ written[3] = 0
  /\ Len(written) = 4 + RECT_LEN

(***************************************************************************)
(* Properties of the server security structure                            *)
(***************************************************************************)
SecNonEmpty(s) ==
  ~(U32(s, 1) = EncryptionMethod_empty /\ U32(s, 5) = EncryptionLevel_None)

\* a nonce or certificate length prefix declares more bytes than the input
\* holds after it, or more than are left for its payload
ExceedsRemaining(s) ==
  /\ Len(s) >= 12
  /\ SecNonEmpty(s)
  /\ \/ U32(s, 9) > Len(s) - 12
     \/ Len(s) >= 16 /\ U32(s, 13) > Len(s) - 16
     \/ Len(s) >= 16 /\ U32(s, 9) + U32(s, 13) > Len(s) - 16

\* method 0x02, level 0x02 and a nonce length prefix one above the nonce
DeclaresLongNonce(s) ==
  /\ Len(s) >= 12
  /\ U32(s, 1) = BIT_128
  /\ U32(s, 5) = EncryptionLevel_ClientCompatible
  /\ U32(s, 9) = SERVER_RANDOM_LEN + 1

\* C6: an input with method 0x02, level 0x02 and nonce length prefix 33 (the
\* invalid-server-random vector), or with a nonce/certificate length prefix
\* exceeding the bytes remaining, fails with a length-prefix-mismatch error
\* and no value; a decode never reads past the end of the input and a
\* decoded field is never shorter or longer than its prefix declares.
C6_LengthPrefixEnforced ==
  phase = "sec_decoded" =>
    /\ sec_result.consumed <= Len(sec_stream)
    /\ \/ sec_stream = SERVER_SECURITY_DATA_WITH_INVALID_SERVER_RANDOM_BUFFER
       \/ DeclaresLongNonce(sec_stream)
       \/ ExceedsRemaining(sec_stream)
       => /\ ~sec_result.ok
          /\ sec_result.err = LengthPrefixMismatch
          /\ sec_result.value = <<>>
    /\ sec_result.ok /\ sec_result.value[1].server_random # <<>> =>
         /\ Len(sec_result.value[1].server_random[1]) = U32(sec_stream, 9)
         /\ Len(sec_result.value[1].server_cert) = U32(sec_stream, 13)
         /\ sec_result.value[1].server_random[1]
              \o sec_result.value[1].server_cert
              = SubSeq(sec_stream, 17, sec_result.consumed)

C6_Witness ==
  /\ phase = "sec_decoded"
  /\ sec_stream = SERVER_SECURITY_DATA_WITH_INVALID_SERVER_RANDOM_BUFFER
  /\ Len(sec_stream) = 233
  /\ U32(sec_stream, 9) = 33
  /\ ~sec_result.ok
  /\ sec_result.err = LengthPrefixMismatch

\* the layout C7 states: each length immediately followed by its payload
InterleavedLayout(v) ==
  to_le_bytes(v.encryption_method) \o to_le_bytes(v.encryption_level)
    \o to_le_bytes(Len(v.server_random[1])) \o v.server_random[1]
    \o to_le_bytes(Len(v.server_cert)) \o v.server_cert

\* the layout of the reference vector: both lengths, then both payloads
LengthsFirstLayout(v) ==
  to_le_bytes(v.encryption_method) \o to_le_bytes(v.encryption_level)
    \o to_le_bytes(Len(v.server_random[1])) \o to_le_bytes(Len(v.server_cert))
    \o v.server_random[1] \o v.server_cert

PopulatedAfterEmpty(s) ==
  /\ Len(s) = 16 + Len(SERVER_RANDOM_BUFFER) + Len(SERVER_CERT_BUFFER)
  /\ ~SecNonEmpty(s)
  /\ U32(s, 9) = Len(SERVER_RANDOM_BUFFER)
  /\ U32(s, 13) = Len(SERVER_CERT_BUFFER)
  /\ Drop(s, 16) = SERVER_RANDOM_BUFFER \o SERVER_CERT_BUFFER

====
